---- MODULE Spec2Model ----
(***************************************************************************)
(* Cluster health and replication topology evaluation of                   *)
(* replication-manager: the aggregate predicates of the Cluster            *)
(* (cluster package, HasAllDbUp .. IsProvisioned), the replication         *)
(* accessors of a ServerMonitor (GetSlaveStatus, GetReplicationDelay,      *)
(* GetSibling) and the connection fallback of GetNewDBConn.                *)
(*                                                                         *)
(* A Go slice is a record [nil, elems]: nil says whether the slice is the  *)
(* nil slice, elems is its content (empty for the nil slice).  Ranging     *)
(* over a nil slice runs no iteration, as in Go.                           *)
(***************************************************************************)
EXTENDS Integers, Sequences, FiniteSets, TLC

\* ---------------------------------------------------------------- bounds
MaxServers == 2
MaxProxies == 1
MaxReplicas == 3
MaxChannels == 2
MaxListLen == 3
MaxNameLen == 1
MaxTick == 2

\* ------------------------------------------------------------- constants
stateFailed == "Failed"
stateSuspect == "Suspect"
stateRunning == "Running"
States == {stateRunning, stateSuspect, stateFailed}

ConstOrchestratorOnPremise == "onpremise"
ConstOrchestratorKube == "kube"
Orchestrators == {ConstOrchestratorOnPremise, ConstOrchestratorKube}

ConstTLSCurrentConfig == "Current"
ConstTLSOldConfig == "Old"
ConstTLSNoConfig == "None"
TLSConfigs == {ConstTLSCurrentConfig, ConstTLSOldConfig, ConstTLSNoConfig}

\* ---------------------------------------------------------------- slices
NilSlice == [nil |-> TRUE, elems |-> <<>>]

MakeSlice(s) == [nil |-> FALSE, elems |-> s]

SeqsUpTo(S, n) == UNION {[1..k -> S] : k \in 0..n}

\* The nodes of a cluster are told apart by their URL: node i has URL i.
WithURLs(s) == [i \in DOMAIN s |-> [s[i] EXCEPT !.URL = i]]

SlicesUpTo(S, n) == {NilSlice} \cup {MakeSlice(WithURLs(s)) : s \in SeqsUpTo(S, n)}

\* ----------------------------------------------------------------- state
VARIABLES
    conf,      \* cluster.Conf and the cluster flags read by the operations
    Servers,   \* cluster.Servers, a slice of ServerMonitor
    Proxies,   \* cluster.Proxies, a slice of Proxy
    alerts,    \* URLs of the nodes the state machine holds an ERR00080 alert for
    op,        \* the last operation: [name, arg], arg the node it ran on (0: none)
    ret,       \* the boolean the last aggregate predicate returned
    num,       \* the number the last accessor returned (a delay, a node, 0: none)
    conn,      \* what the last GetNewDBConn did: [attempts, conn, err]
    master,    \* cluster.master and cluster.vmaster, as positions in Servers (0: nil)
    mon,       \* the monitoring loop: the current tick, and per node the tick of its state
    eval,      \* the HasAllDbUp evaluation in progress: loop position, ticks read
    text       \* the string the last accessor returned

vars == <<conf, Servers, Proxies, alerts, op, ret, num, conn, master, mon, eval, text>>

DefaultConf ==
    [ProvOrchestrator |-> ConstOrchestratorKube, Hosts |-> "db1,db2",
     MasterSlavePgStream |-> FALSE, MasterSlavePgLogical |-> FALSE,
     HaveDBTLSCert |-> FALSE,
     IgnoreSrv |-> <<>>, BackupServers |-> <<>>, IgnoreSrvRO |-> <<>>,
     PrefMaster |-> <<>>,
     MonitorCapture |-> FALSE, IsNotMonitoring |-> FALSE]

DefaultServer ==
    [URL |-> 0, ServerID |-> 0, State |-> stateRunning,
     ProvisionCookie |-> FALSE, RestartCookie |-> FALSE, ReprovCookie |-> FALSE,
     ReplicationSourceName |-> "", Replications |-> NilSlice,
     TLSConfigUsed |-> ConstTLSCurrentConfig, DSN |-> ConstTLSCurrentConfig,
     Name |-> <<>>, InCaptureMode |-> FALSE,
     DBVersion |-> "MariaDB", HaveMySQLGTID |-> FALSE]

DefaultProxy ==
    [URL |-> 0, State |-> stateRunning,
     ProvisionCookie |-> FALSE, RestartCookie |-> FALSE, ReprovCookie |-> FALSE]

NoOp == [name |-> "none", arg |-> 0]

NoConn == [attempts |-> <<>>, conn |-> "nil", err |-> "nil"]

NoMaster == [master |-> 0, vmaster |-> 0]

NoMon == [tick |-> 0, stamp |-> <<>>]

NoEval == [i |-> 0, seen |-> {}]

\* ------------------------------------------------ node health and cookies
HasRestartCookie(m) == m.RestartCookie

HasReprovCookie(m) == m.ReprovCookie

HasProvisionCookie(m) == m.ProvisionCookie

SetProvisionCookie(m) == [m EXCEPT !.ProvisionCookie = TRUE]

DelRestartCookie(m) == [m EXCEPT !.RestartCookie = FALSE]

IsRunning(m) == m.State = stateRunning

\* ---------------------------------------------------- aggregate predicates
HasAllDbUp(servers) ==
    IF servers.nil THEN FALSE
    ELSE ~\E i \in DOMAIN servers.elems :
            servers.elems[i].State = stateFailed
            \/ servers.elems[i].State = stateSuspect

\* Faulty variant: the existential restart trigger quantifies over every node.
HasRequestDBRestart_All(servers) ==
    IF servers.nil THEN FALSE
    ELSE \A i \in DOMAIN servers.elems : HasRestartCookie(servers.elems[i])

HasRequestDBRestart(servers) ==
    IF servers.nil THEN FALSE
    ELSE \E i \in DOMAIN servers.elems : HasRestartCookie(servers.elems[i])

HasRequestDBRollingRestart(servers) ==
    IF servers.nil THEN FALSE
    ELSE ~\E i \in DOMAIN servers.elems : ~HasRestartCookie(servers.elems[i])

HasRequestDBRollingReprov(servers) ==
    IF servers.nil THEN FALSE
    ELSE ~\E i \in DOMAIN servers.elems : ~HasReprovCookie(servers.elems[i])

\* --------------------------------------------------------------- actions
CallHasAllDbUp ==
    /\ op' = [name |-> "HasAllDbUp", arg |-> 0]
    /\ ret' = HasAllDbUp(Servers)
    /\ UNCHANGED <<conf, master, mon, eval, text, Servers, Proxies, alerts, num, conn>>

CallHasRequestDBRestart ==
    /\ op' = [name |-> "HasRequestDBRestart", arg |-> 0]
    /\ ret' = HasRequestDBRestart(Servers)
    /\ UNCHANGED <<conf, master, mon, eval, text, Servers, Proxies, alerts, num, conn>>

CallHasRequestDBRollingRestart ==
    /\ op' = [name |-> "HasRequestDBRollingRestart", arg |-> 0]
    /\ ret' = HasRequestDBRollingRestart(Servers)
    /\ UNCHANGED <<conf, master, mon, eval, text, Servers, Proxies, alerts, num, conn>>

CallHasRequestDBRollingReprov ==
    /\ op' = [name |-> "HasRequestDBRollingReprov", arg |-> 0]
    /\ ret' = HasRequestDBRollingReprov(Servers)
    /\ UNCHANGED <<conf, master, mon, eval, text, Servers, Proxies, alerts, num, conn>>

\* The orchestrated restart of node i completes and consumes its cookie.
RestartDone ==
    \E i \in DOMAIN Servers.elems :
        /\ HasRestartCookie(Servers.elems[i])
        /\ Servers' = [Servers EXCEPT !.elems[i] = DelRestartCookie(@)]
        /\ op' = [name |-> "DelRestartCookie", arg |-> i]
        /\ UNCHANGED <<conf, master, mon, eval, text, Proxies, alerts, ret, num, conn>>

\* --------------------------------------------- specification: predicates
PredServers ==
    {[DefaultServer EXCEPT !.State = s, !.RestartCookie = r, !.ReprovCookie = p] :
        s \in States, r \in BOOLEAN, p \in BOOLEAN}

Init ==
    /\ conf = DefaultConf
    /\ Servers \in SlicesUpTo(PredServers, MaxServers)
    /\ Proxies = NilSlice
    /\ alerts = {}
    /\ op = NoOp
    /\ ret = FALSE
    /\ num = 0
    /\ conn = NoConn
    /\ master = NoMaster
    /\ mon = NoMon
    /\ eval = NoEval
    /\ text = ""

Next ==
    \/ CallHasAllDbUp
    \/ CallHasRequestDBRestart
    \/ CallHasRequestDBRollingRestart
    \/ CallHasRequestDBRollingReprov
    \/ RestartDone

Spec == Init /\ [][Next]_vars

\* ------------------------------------------------------ claims C1 .. C3
NoneDown(servers) ==
    \A i \in DOMAIN servers.elems :
        servers.elems[i].State \notin {stateFailed, stateSuspect}

NonEmpty(slice) == ~slice.nil /\ Len(slice.elems) > 0

\* C1: HasAllDbUp returns true if and only if the node set is non-empty and
\* no node is Failed or Suspect; it returns false for a nil node set and for
\* a defined but empty node set.
C1_HasAllDbUpIff ==
    op.name = "HasAllDbUp" => (ret <=> (NonEmpty(Servers) /\ NoneDown(Servers)))

\* C2: HasRequestDBRollingRestart (resp. HasRequestDBRollingReprov) returns
\* true if and only if the node set is non-empty and every node carries the
\* restart (resp. reprovision) cookie; both return false for an empty set.
C2_RollingIff ==
    /\ op.name = "HasRequestDBRollingRestart" =>
          (ret <=> (NonEmpty(Servers)
                    /\ \A i \in DOMAIN Servers.elems : Servers.elems[i].RestartCookie))
    /\ op.name = "HasRequestDBRollingReprov" =>
          (ret <=> (NonEmpty(Servers)
                    /\ \A i \in DOMAIN Servers.elems : Servers.elems[i].ReprovCookie))

AllRestartCookies ==
    \A i \in DOMAIN Servers.elems : Servers.elems[i].RestartCookie

\* This step removes the restart cookie from exactly one node, nothing else.
RemovesOneRestartCookie ==
    \E i \in DOMAIN Servers.elems :
        /\ Servers.elems[i].RestartCookie
        /\ Servers' = [Servers EXCEPT !.elems[i].RestartCookie = FALSE]

\* C3 as stated: when every node has the restart cookie,
\* HasRequestDBRollingRestart is true, and after the cookie is removed from
\* exactly one node it is false while HasRequestDBRestart is still true.
C3_Original ==
    [][(AllRestartCookies /\ RemovesOneRestartCookie) =>
          /\ HasRequestDBRollingRestart(Servers)
          /\ ~HasRequestDBRollingRestart(Servers')
          /\ HasRequestDBRestart(Servers')]_vars

\* C3 amended: when every node of a non-empty set has the restart cookie,
\* HasRequestDBRollingRestart is true, and after the cookie is removed from
\* exactly one node it is false, while HasRequestDBRestart is still true
\* exactly when the node set has at least two nodes (another node still
\* carries the cookie); for a single node it becomes false.
C3_Amended ==
    [][(AllRestartCookies /\ RemovesOneRestartCookie) =>
          /\ HasRequestDBRollingRestart(Servers)
          /\ ~HasRequestDBRollingRestart(Servers')
          /\ HasRequestDBRestart(Servers') <=> (Len(Servers.elems) >= 2)]_vars

\* A cookie was just removed from one node of a set of at least two that all
\* had it: the rolling predicate is false, the existential one true.
C3_Witness ==
    /\ op.name = "DelRestartCookie"
    /\ Len(Servers.elems) >= 2
    /\ \A i \in DOMAIN Servers.elems :
          Servers.elems[i].RestartCookie <=> (i # op.arg)
    /\ ~HasRequestDBRollingRestart(Servers)
    /\ HasRequestDBRestart(Servers)

\* ---------------------------------------------------------- IsProvisioned
\* Faulty variant: a member that is not running is skipped instead of ending the scan.
RECURSIVE ProvisionScan_Skip(_, _)
ProvisionScan_Skip(ms, i) ==
    IF i > Len(ms) THEN [ok |-> TRUE, elems |-> ms]
    ELSE IF ~HasProvisionCookie(ms[i]) /\ IsRunning(ms[i])
         THEN ProvisionScan_Skip([ms EXCEPT ![i] = SetProvisionCookie(@)], i + 1)
         ELSE ProvisionScan_Skip(ms, i + 1)

\* Faulty variant: the member that ends the scan gets the cookie as well.
RECURSIVE ProvisionScan_Mark(_, _)
ProvisionScan_Mark(ms, i) ==
    IF i > Len(ms) THEN [ok |-> TRUE, elems |-> ms]
    ELSE IF ~HasProvisionCookie(ms[i])
         THEN IF IsRunning(ms[i])
              THEN ProvisionScan_Mark([ms EXCEPT ![i] = SetProvisionCookie(@)], i + 1)
              ELSE [ok |-> FALSE, elems |-> [ms EXCEPT ![i] = SetProvisionCookie(@)]]
         ELSE ProvisionScan_Mark(ms, i + 1)

\* One loop of IsProvisioned over the members ms, from member i on: ok says
\* whether the loop ran to its end, elems is ms with the cookies it set.
RECURSIVE ProvisionScan(_, _)
ProvisionScan(ms, i) ==
    IF i > Len(ms) THEN [ok |-> TRUE, elems |-> ms]
    ELSE IF ~HasProvisionCookie(ms[i])
         THEN IF IsRunning(ms[i])
              THEN ProvisionScan([ms EXCEPT ![i] = SetProvisionCookie(@)], i + 1)
              ELSE [ok |-> FALSE, elems |-> ms]
         ELSE ProvisionScan(ms, i + 1)

\* Faulty variant: the on-premise backend is scanned like any other.
IsProvisioned_NoShortcut(c, servers, proxies) ==
    IF c.Hosts = ""
    THEN [ret |-> FALSE, Servers |-> servers, Proxies |-> proxies]
    ELSE LET db == ProvisionScan(servers.elems, 1)
             px == ProvisionScan(proxies.elems, 1)
         IN IF ~db.ok
            THEN [ret |-> FALSE, Servers |-> [servers EXCEPT !.elems = db.elems],
                  Proxies |-> proxies]
            ELSE [ret |-> px.ok, Servers |-> [servers EXCEPT !.elems = db.elems],
                  Proxies |-> [proxies EXCEPT !.elems = px.elems]]

\* The result of IsProvisioned and the node and proxy sets it leaves.
IsProvisioned(c, servers, proxies) ==
    IF c.ProvOrchestrator = ConstOrchestratorOnPremise
    THEN [ret |-> TRUE, Servers |-> servers, Proxies |-> proxies]
    ELSE IF c.Hosts = ""
    THEN [ret |-> FALSE, Servers |-> servers, Proxies |-> proxies]
    ELSE LET db == ProvisionScan(servers.elems, 1)
             px == ProvisionScan(proxies.elems, 1)
         IN IF ~db.ok
            THEN [ret |-> FALSE, Servers |-> [servers EXCEPT !.elems = db.elems],
                  Proxies |-> proxies]
            ELSE [ret |-> px.ok, Servers |-> [servers EXCEPT !.elems = db.elems],
                  Proxies |-> [proxies EXCEPT !.elems = px.elems]]

CallIsProvisioned ==
    LET r == IsProvisioned(conf, Servers, Proxies)
    IN /\ op' = [name |-> "IsProvisioned", arg |-> 0]
       /\ ret' = r.ret
       /\ Servers' = r.Servers
       /\ Proxies' = r.Proxies
       /\ UNCHANGED <<conf, master, mon, eval, text, alerts, num, conn>>

\* The failover state machine writes the health state of node i.
SetServerState ==
    \E i \in DOMAIN Servers.elems, s \in States :
        /\ s # Servers.elems[i].State
        /\ Servers' = [Servers EXCEPT !.elems[i].State = s]
        /\ op' = [name |-> "SetState", arg |-> i]
        /\ UNCHANGED <<conf, master, mon, eval, text, Proxies, alerts, ret, num, conn>>

\* The failover state machine writes the health state of proxy i.
SetProxyState ==
    \E i \in DOMAIN Proxies.elems, s \in States :
        /\ s # Proxies.elems[i].State
        /\ Proxies' = [Proxies EXCEPT !.elems[i].State = s]
        /\ op' = [name |-> "SetProxyState", arg |-> i]
        /\ UNCHANGED <<conf, master, mon, eval, text, Servers, alerts, ret, num, conn>>

\* ------------------------------------------- specification: provisioning
ProvConfs ==
    {[DefaultConf EXCEPT !.ProvOrchestrator = o, !.Hosts = h] :
        o \in Orchestrators, h \in {"", "db1,db2"}}

ProvServers ==
    {[DefaultServer EXCEPT !.State = s, !.ProvisionCookie = c] :
        s \in States, c \in BOOLEAN}

ProvProxies ==
    {[DefaultProxy EXCEPT !.State = s, !.ProvisionCookie = c] :
        s \in States, c \in BOOLEAN}

InitProv ==
    /\ conf \in ProvConfs
    /\ Servers \in SlicesUpTo(ProvServers, MaxServers)
    /\ Proxies \in SlicesUpTo(ProvProxies, MaxProxies)
    /\ alerts = {}
    /\ op = NoOp
    /\ ret = FALSE
    /\ num = 0
    /\ conn = NoConn
    /\ master = NoMaster
    /\ mon = NoMon
    /\ eval = NoEval
    /\ text = ""

NextProv ==
    \/ CallIsProvisioned
    \/ SetServerState
    \/ SetProxyState

SpecProv == InitProv /\ [][NextProv]_vars

\* ------------------------------------------------------ claims C4 .. C6
IsProvisionedStep == op'.name = "IsProvisioned"

\* C4: with the on-premise backend IsProvisioned returns true for every
\* combination of node and proxy states and cookies, and sets no cookie.
C4_OnPremise ==
    [][(IsProvisionedStep /\ conf.ProvOrchestrator = ConstOrchestratorOnPremise) =>
          /\ ret' = TRUE
          /\ Servers' = Servers
          /\ Proxies' = Proxies]_vars

\* IsProvisioned returned true on-premise although a node without the
\* provision cookie is down; the node still has no cookie.
C4_Witness ==
    /\ op.name = "IsProvisioned"
    /\ conf.ProvOrchestrator = ConstOrchestratorOnPremise
    /\ conf.Hosts # ""
    /\ ret = TRUE
    /\ \E i \in DOMAIN Servers.elems :
          /\ Servers.elems[i].State = stateFailed
          /\ ~Servers.elems[i].ProvisionCookie

\* C5: IsProvisioned returns true when the configured host list is empty,
\* whatever the provisioning backend and the nodes' states.
C5_NoHosts ==
    (op.name = "IsProvisioned" /\ conf.Hosts = "") => ret = TRUE

\* The members IsProvisioned scans, in scan order: the nodes, then the proxies.
Members(servers, proxies) == servers.elems \o proxies.elems

Blockers(ms) ==
    {k \in DOMAIN ms : ~ms[k].ProvisionCookie /\ ~IsRunning(ms[k])}

FirstOf(S) == CHOOSE k \in S : \A j \in S : k <= j

\* C6: off-premise with hosts configured, IsProvisioned scans the nodes then
\* the proxies: it returns false exactly when some member has no cookie and
\* is not running, leaving that member and all later ones untouched, and
\* every member before the first such one ends with the cookie (set now if
\* it was missing, the member being running); so when it returns true every
\* node and every proxy holds the provision cookie.
C6_Scan ==
    [][(/\ IsProvisionedStep
        /\ conf.ProvOrchestrator # ConstOrchestratorOnPremise
        /\ conf.Hosts # "") =>
          LET before == Members(Servers, Proxies)
              after == Members(Servers', Proxies')
              stop == Blockers(before)
          IN /\ Len(Servers'.elems) = Len(Servers.elems)
             /\ Len(Proxies'.elems) = Len(Proxies.elems)
             /\ Servers'.nil = Servers.nil /\ Proxies'.nil = Proxies.nil
             /\ ret' = (stop = {})
             /\ \A k \in DOMAIN before :
                   IF stop = {} \/ k < FirstOf(stop)
                   THEN after[k] = [before[k] EXCEPT !.ProvisionCookie = TRUE]
                   ELSE after[k] = before[k]
             /\ ret' => \A k \in DOMAIN after : after[k].ProvisionCookie]_vars

\* IsProvisioned returned true off-premise over at least one node and one
\* proxy, all of which hold the cookie.
C6_Witness ==
    /\ op.name = "IsProvisioned"
    /\ conf.ProvOrchestrator # ConstOrchestratorOnPremise
    /\ conf.Hosts # ""
    /\ ret = TRUE
    /\ Len(Servers.elems) >= 2 /\ Len(Proxies.elems) >= 1
    /\ \A i \in DOMAIN Servers.elems : Servers.elems[i].ProvisionCookie
    /\ \A i \in DOMAIN Proxies.elems : Proxies.elems[i].ProvisionCookie

\* ----------------------------------------------------------- GetNewDBConn
\* server.SetDSN rebuilds the connection string from the security state in use.
SetDSN(server) == [server EXCEPT !.DSN = server.TLSConfigUsed]

\* sqlx.Connect with the connection string dsn; ok is whether the database
\* accepts it.  A connection is named by the string it was opened with, an
\* error by the string that failed.
Connect(driver, dsn, ok) ==
    [try |-> [driver |-> driver, dsn |-> dsn, ok |-> ok],
     conn |-> IF ok THEN dsn ELSE "nil",
     err |-> IF ok THEN "nil" ELSE dsn]

\* Faulty variant: the security state that succeeded is kept on the node.
GetNewDBConn_Persist(c, server, oks) ==
    IF c.MasterSlavePgStream \/ c.MasterSlavePgLogical
    THEN LET r == Connect("postgres", server.DSN, oks[1])
         IN [server |-> server, attempts |-> <<r.try>>,
             conn |-> r.conn, err |-> r.err, alert |-> FALSE]
    ELSE LET r1 == Connect("mysql", server.DSN, oks[1])
         IN IF r1.err # "nil" /\ c.HaveDBTLSCert
            THEN LET s2 == SetDSN([server EXCEPT !.TLSConfigUsed = ConstTLSOldConfig])
                     r2 == Connect("mysql", s2.DSN, oks[2])
                 IN IF r2.err = "nil"
                    THEN [server |-> s2, attempts |-> <<r1.try, r2.try>>,
                          conn |-> r2.conn, err |-> r2.err, alert |-> TRUE]
                    ELSE LET s3 == SetDSN([s2 EXCEPT !.TLSConfigUsed = ConstTLSNoConfig])
                             r3 == Connect("mysql", s3.DSN, oks[3])
                         IN [server |-> IF r3.err = "nil" THEN s3
                                        ELSE SetDSN([s3 EXCEPT !.TLSConfigUsed =
                                                        ConstTLSCurrentConfig]),
                             attempts |-> <<r1.try, r2.try, r3.try>>,
                             conn |-> r3.conn, err |-> r3.err, alert |-> FALSE]
            ELSE [server |-> server, attempts |-> <<r1.try>>,
                  conn |-> r1.conn, err |-> r1.err, alert |-> FALSE]

\* Faulty variant: the fallback goes straight to no certificate, skipping the old one.
GetNewDBConn_SkipOld(c, server, oks) ==
    IF c.MasterSlavePgStream \/ c.MasterSlavePgLogical
    THEN LET r == Connect("postgres", server.DSN, oks[1])
         IN [server |-> server, attempts |-> <<r.try>>,
             conn |-> r.conn, err |-> r.err, alert |-> FALSE]
    ELSE LET r1 == Connect("mysql", server.DSN, oks[1])
         IN IF r1.err # "nil" /\ c.HaveDBTLSCert
            THEN LET s3 == SetDSN([server EXCEPT !.TLSConfigUsed = ConstTLSNoConfig])
                     r3 == Connect("mysql", s3.DSN, oks[3])
                 IN [server |-> SetDSN([s3 EXCEPT !.TLSConfigUsed =
                                            ConstTLSCurrentConfig]),
                     attempts |-> <<r1.try, r3.try>>,
                     conn |-> r3.conn, err |-> r3.err, alert |-> FALSE]
            ELSE [server |-> server, attempts |-> <<r1.try>>,
                  conn |-> r1.conn, err |-> r1.err, alert |-> FALSE]

\* GetNewDBConn on server, oks[k] being whether the k-th connection attempt
\* succeeds: the server as the call leaves it, the attempts made in order,
\* the connection and error returned, and whether ERR00080 was raised.
GetNewDBConn(c, server, oks) ==
    IF c.MasterSlavePgStream \/ c.MasterSlavePgLogical
    THEN LET r == Connect("postgres", server.DSN, oks[1])
         IN [server |-> server, attempts |-> <<r.try>>,
             conn |-> r.conn, err |-> r.err, alert |-> FALSE]
    ELSE LET r1 == Connect("mysql", server.DSN, oks[1])
         IN IF r1.err # "nil" /\ c.HaveDBTLSCert
            THEN LET s2 == SetDSN([server EXCEPT !.TLSConfigUsed = ConstTLSOldConfig])
                     r2 == Connect("mysql", s2.DSN, oks[2])
                 IN IF r2.err = "nil"
                    THEN [server |-> SetDSN([s2 EXCEPT !.TLSConfigUsed =
                                                ConstTLSCurrentConfig]),
                          attempts |-> <<r1.try, r2.try>>,
                          conn |-> r2.conn, err |-> r2.err, alert |-> TRUE]
                    ELSE LET s3 == SetDSN([s2 EXCEPT !.TLSConfigUsed = ConstTLSNoConfig])
                             r3 == Connect("mysql", s3.DSN, oks[3])
                         IN [server |-> SetDSN([s3 EXCEPT !.TLSConfigUsed =
                                                    ConstTLSCurrentConfig]),
                             attempts |-> <<r1.try, r2.try, r3.try>>,
                             conn |-> r3.conn, err |-> r3.err, alert |-> FALSE]
            ELSE [server |-> server, attempts |-> <<r1.try>>,
                  conn |-> r1.conn, err |-> r1.err, alert |-> FALSE]

CallGetNewDBConn ==
    \E i \in DOMAIN Servers.elems, oks \in [1..3 -> BOOLEAN] :
        LET r == GetNewDBConn(conf, Servers.elems[i], oks)
        IN /\ op' = [name |-> "GetNewDBConn", arg |-> i]
           /\ Servers' = [Servers EXCEPT !.elems[i] = r.server]
           /\ conn' = [attempts |-> r.attempts, conn |-> r.conn, err |-> r.err]
           /\ alerts' = IF r.alert THEN alerts \cup {Servers.elems[i].URL} ELSE alerts
           /\ UNCHANGED <<conf, master, mon, eval, text, Proxies, ret, num>>

\* --------------------------------------------- specification: connection
ConnConfs ==
    {[DefaultConf EXCEPT !.MasterSlavePgStream = s, !.MasterSlavePgLogical = l,
                         !.HaveDBTLSCert = t] :
        s \in BOOLEAN, l \in BOOLEAN, t \in BOOLEAN}

InitConn ==
    /\ conf \in ConnConfs
    /\ Servers \in SlicesUpTo({DefaultServer}, MaxServers)
    /\ Proxies = NilSlice
    /\ alerts = {}
    /\ op = NoOp
    /\ ret = FALSE
    /\ num = 0
    /\ conn = NoConn
    /\ master = NoMaster
    /\ mon = NoMon
    /\ eval = NoEval
    /\ text = ""

NextConn == CallGetNewDBConn

SpecConn == InitConn /\ [][NextConn]_vars

\* ------------------------------------------------------ claims C7 .. C8
Try(driver, dsn, ok) == [driver |-> driver, dsn |-> dsn, ok |-> ok]

\* The last call was GetNewDBConn, failed with the current certificate
\* configuration and succeeded with the old one.
FellBackToOld ==
    /\ op.name = "GetNewDBConn"
    /\ conn.attempts = <<Try("mysql", ConstTLSCurrentConfig, FALSE),
                         Try("mysql", ConstTLSOldConfig, TRUE)>>

NextCallOnSameNode == op'.name = "GetNewDBConn" /\ op'.arg = op.arg

FallbackOrder == <<ConstTLSCurrentConfig, ConstTLSOldConfig, ConstTLSNoConfig>>

SingleAttemptMode ==
    conf.MasterSlavePgStream \/ conf.MasterSlavePgLogical \/ ~conf.HaveDBTLSCert

\* C8: GetNewDBConn tries the configurations in the order Current, Old,
\* None; Old is tried only if the Current attempt failed and TLS certificates
\* are enabled, None only if the Old attempt failed too; with TLS disabled or
\* in PostgreSQL mode exactly one attempt is made; the call returns the first
\* successful connection, or the error of the last attempt if all failed.
C8_FallbackOrder ==
    op.name = "GetNewDBConn" =>
        LET a == conn.attempts
            n == Len(conn.attempts)
        IN /\ n \in 1..3
           /\ \A k \in 1..n : a[k].dsn = FallbackOrder[k]
           /\ \A k \in 1..(n - 1) : ~a[k].ok
           /\ n >= 2 => conf.HaveDBTLSCert
           /\ SingleAttemptMode => n = 1
           /\ (~SingleAttemptMode /\ ~a[n].ok) => n = 3
           /\ IF a[n].ok
              THEN conn.conn = a[n].dsn /\ conn.err = "nil"
              ELSE conn.conn = "nil" /\ conn.err = a[n].dsn

\* Every attempt failed with TLS enabled: three attempts were made and the
\* error returned is the one of the attempt without certificate.
C8_Witness ==
    /\ op.name = "GetNewDBConn"
    /\ Len(conn.attempts) = 3
    /\ conn.err = ConstTLSNoConfig
    /\ conn.conn = "nil"

\* ------------------------------------------------- replication accessors
\* A dbhelper.SlaveStatus: the fields the accessors read.  SecondsBehindMaster
\* is a sql.NullInt64: Valid is false, and Int64 zero, when no value was read.
DefaultSlaveStatus ==
    [ConnectionName |-> "", MasterServerID |-> 0,
     SecondsBehindMaster |-> [Int64 |-> 0, Valid |-> FALSE],
     UsingGtid |-> [String |-> "", Valid |-> FALSE]]

\* The positions of the records of server's channel list named name.
ChannelsNamed(server, name) ==
    {k \in DOMAIN server.Replications.elems :
        server.Replications.elems[k].ConnectionName = name}

\* The first record named name and no error, or the error "Empty
\* replications channels" (err) when the list is nil or holds no such record.
GetSlaveStatus(server, name) ==
    IF ~server.Replications.nil /\ ChannelsNamed(server, name) # {}
    THEN [ss |-> server.Replications.elems[
                    CHOOSE k \in ChannelsNamed(server, name) :
                        \A j \in ChannelsNamed(server, name) : k <= j],
          err |-> FALSE]
    ELSE [ss |-> DefaultSlaveStatus, err |-> TRUE]

GetReplicationDelay(server) ==
    LET r == GetSlaveStatus(server, server.ReplicationSourceName)
    IN IF r.err THEN 0
       ELSE IF r.ss.SecondsBehindMaster.Valid = FALSE THEN 0
       ELSE r.ss.SecondsBehindMaster.Int64

\* The nodes the scan of GetSibling(servers[i]) accepts.
SiblingMatches(servers, i) ==
    LET server == servers.elems[i]
        ssserver == GetSlaveStatus(server, server.ReplicationSourceName)
    IN {k \in DOMAIN servers.elems :
          LET sl == servers.elems[k]
              sssib == GetSlaveStatus(sl, sl.ReplicationSourceName)
          IN /\ ~sssib.err
             /\ sssib.ss.MasterServerID = ssserver.ss.MasterServerID
             /\ sl.ServerID # server.ServerID}

\* Faulty variant: the scan does not exclude the node itself.
GetSibling_Self(servers, i) ==
    LET server == servers.elems[i]
        ssserver == GetSlaveStatus(server, server.ReplicationSourceName)
        hits == {k \in DOMAIN servers.elems :
                    LET sl == servers.elems[k]
                        sssib == GetSlaveStatus(sl, sl.ReplicationSourceName)
                    IN /\ ~sssib.err
                       /\ sssib.ss.MasterServerID = ssserver.ss.MasterServerID}
    IN IF ssserver.err \/ hits = {} THEN 0
       ELSE CHOOSE k \in hits : \A j \in hits : k <= j

\* GetSibling of node i: the position in servers of the node returned, which
\* is the first one the scan accepts, or 0 for nil.
GetSibling(servers, i) ==
    LET server == servers.elems[i]
        ssserver == GetSlaveStatus(server, server.ReplicationSourceName)
    IN IF ssserver.err THEN 0
       ELSE IF SiblingMatches(servers, i) = {} THEN 0
       ELSE CHOOSE k \in SiblingMatches(servers, i) :
                \A j \in SiblingMatches(servers, i) : k <= j

CallGetReplicationDelay ==
    \E i \in DOMAIN Servers.elems :
        /\ op' = [name |-> "GetReplicationDelay", arg |-> i]
        /\ num' = GetReplicationDelay(Servers.elems[i])
        /\ UNCHANGED <<conf, master, mon, eval, text, Servers, Proxies, alerts, ret, conn>>

CallGetSibling ==
    \E i \in DOMAIN Servers.elems :
        /\ op' = [name |-> "GetSibling", arg |-> i]
        /\ num' = GetSibling(Servers, i)
        /\ UNCHANGED <<conf, master, mon, eval, text, Servers, Proxies, alerts, ret, conn>>

\* ----------------------------------------------- specification: siblings
ChannelNames == {"", "ch1"}

UpstreamIDs == {7, 8}

ServerIDs == {1, 2, 3}

\* What a replica reports in the sibling specification: nothing, or one
\* channel, which is the active one ("") or another one.
SiblingReplications ==
    {NilSlice}
    \cup {MakeSlice(<<[DefaultSlaveStatus EXCEPT !.MasterServerID = m]>>) :
            m \in UpstreamIDs}
    \cup {MakeSlice(<<[DefaultSlaveStatus EXCEPT !.ConnectionName = "ch1",
                                                 !.MasterServerID = 7]>>)}

SiblingServers ==
    {[DefaultServer EXCEPT !.ServerID = id, !.Replications = rs] :
        id \in ServerIDs, rs \in SiblingReplications}

InitSibling ==
    /\ conf = DefaultConf
    /\ Servers \in SlicesUpTo(SiblingServers, MaxReplicas)
    /\ Proxies = NilSlice
    /\ alerts = {}
    /\ op = NoOp
    /\ ret = FALSE
    /\ num = 0
    /\ conn = NoConn
    /\ master = NoMaster
    /\ mon = NoMon
    /\ eval = NoEval
    /\ text = ""

NextSibling == CallGetSibling

SpecSibling == InitSibling /\ [][NextSibling]_vars

\* -------------------------------------------------- specification: delay
DelayValues == {-1, 0, 5}

Measurements ==
    {[Int64 |-> 0, Valid |-> FALSE]} \cup {[Int64 |-> v, Valid |-> TRUE] : v \in DelayValues}

DelayRecords ==
    {[DefaultSlaveStatus EXCEPT !.ConnectionName = n, !.MasterServerID = 7,
                                !.SecondsBehindMaster = m] :
        n \in ChannelNames, m \in Measurements}

DelayReplications ==
    {NilSlice} \cup {MakeSlice(s) : s \in SeqsUpTo(DelayRecords, MaxChannels)}

DelayServers ==
    {[DefaultServer EXCEPT !.ReplicationSourceName = n, !.Replications = rs] :
        n \in ChannelNames, rs \in DelayReplications}

InitDelay ==
    /\ conf = DefaultConf
    /\ Servers \in {MakeSlice(WithURLs(<<server>>)) : server \in DelayServers}
    /\ Proxies = NilSlice
    /\ alerts = {}
    /\ op = NoOp
    /\ ret = FALSE
    /\ num = 0
    /\ conn = NoConn
    /\ master = NoMaster
    /\ mon = NoMon
    /\ eval = NoEval
    /\ text = ""

NextDelay == CallGetReplicationDelay

SpecDelay == InitDelay /\ [][NextDelay]_vars

\* ------------------------------------------------------ claims C9 .. C10
\* Node k reports the upstream server identifier m on its active channel.
ReportsUpstream(k, m) ==
    LET r == GetSlaveStatus(Servers.elems[k], Servers.elems[k].ReplicationSourceName)
    IN ~r.err /\ r.ss.MasterServerID = m

UpstreamOf(k) ==
    GetSlaveStatus(Servers.elems[k], Servers.elems[k].ReplicationSourceName).ss.MasterServerID

\* GetSibling(A) was called and returned the node B.
SiblingReturned(a, b) ==
    op.name = "GetSibling" /\ op.arg = a /\ num = b /\ b # 0

\* C9 as stated: for nodes A and B reporting the same upstream identifier,
\* if GetSibling(A) returns B then GetSibling(B) returns A, in clusters of
\* any size, three or more replicas of one upstream included.
C9_Original ==
    \A a, b \in DOMAIN Servers.elems :
        (/\ SiblingReturned(a, b)
         /\ ReportsUpstream(a, UpstreamOf(a))
         /\ ReportsUpstream(b, UpstreamOf(a))) =>
            GetSibling(Servers, b) = a

\* C9 amended: for nodes A and B reporting the same upstream identifier, if
\* GetSibling(A) returns B and no third node of the cluster reports that
\* upstream identifier, then GetSibling(B) returns A; with three or more
\* replicas of one upstream GetSibling(B) is still a replica of that upstream
\* other than B, but need not be A.
C9_Amended ==
    \A a, b \in DOMAIN Servers.elems :
        (/\ SiblingReturned(a, b)
         /\ ReportsUpstream(a, UpstreamOf(a))
         /\ ReportsUpstream(b, UpstreamOf(a))) =>
            /\ GetSibling(Servers, b) # 0
            /\ GetSibling(Servers, b) # b
            /\ ReportsUpstream(GetSibling(Servers, b), UpstreamOf(a))
            /\ (\A k \in DOMAIN Servers.elems :
                    ReportsUpstream(k, UpstreamOf(a)) => k \in {a, b}) =>
                  GetSibling(Servers, b) = a

\* In a cluster of three nodes, GetSibling(A) returned B, the only other
\* node reporting A's upstream, and GetSibling(B) is A.
C9_Witness ==
    \E a, b \in DOMAIN Servers.elems :
        /\ SiblingReturned(a, b)
        /\ Len(Servers.elems) >= 3
        /\ \A k \in DOMAIN Servers.elems :
              ReportsUpstream(k, UpstreamOf(a)) <=> k \in {a, b}
        /\ GetSibling(Servers, b) = a

\* C10: GetReplicationDelay returns 0 when the lookup of the active channel
\* fails or the record has no measurement, exactly the recorded value when a
\* measurement is present, and never a negative value.
C10_Delay ==
    op.name = "GetReplicationDelay" =>
        LET server == Servers.elems[op.arg]
            r == GetSlaveStatus(server, server.ReplicationSourceName)
        IN /\ (r.err \/ ~r.ss.SecondsBehindMaster.Valid) => num = 0
           /\ (~r.err /\ r.ss.SecondsBehindMaster.Valid) =>
                 num = r.ss.SecondsBehindMaster.Int64
           /\ num >= 0

\* ------------------------------------------------------------- host lists
\* A string whose text matters is a sequence of characters.
\* The positions of the separator sep in the string s.
SepPositions(s, sep) == {k \in DOMAIN s : s[k] = sep}

\* strings.Split(s, sep) for a one-character separator: the pieces of s
\* between the separators, in order; the empty string gives one empty piece.
RECURSIVE Split(_, _)
Split(s, sep) ==
    IF SepPositions(s, sep) = {} THEN <<s>>
    ELSE LET k == CHOOSE p \in SepPositions(s, sep) :
                      \A q \in SepPositions(s, sep) : p <= q
         IN <<SubSeq(s, 1, k - 1)>> \o Split(SubSeq(s, k + 1, Len(s)), sep)

IsInIgnoredHosts(c, server) ==
    LET ihosts == Split(c.IgnoreSrv, ",")
    IN \E k \in DOMAIN ihosts : server.URL = ihosts[k] \/ server.Name = ihosts[k]

IsInPreferedBackupHosts(c, server) ==
    LET ihosts == Split(c.BackupServers, ",")
    IN \E k \in DOMAIN ihosts : server.URL = ihosts[k] \/ server.Name = ihosts[k]

IsInIgnoredReadonly(c, server) ==
    LET ihosts == Split(c.IgnoreSrvRO, ",")
    IN \E k \in DOMAIN ihosts : server.URL = ihosts[k] \/ server.Name = ihosts[k]

IsInPreferedHosts(c, server) ==
    LET ihosts == Split(c.PrefMaster, ",")
    IN \E k \in DOMAIN ihosts : server.URL = ihosts[k] \/ server.Name = ihosts[k]

CallIsInIgnoredHosts ==
    \E i \in DOMAIN Servers.elems :
        /\ op' = [name |-> "IsInIgnoredHosts", arg |-> i]
        /\ ret' = IsInIgnoredHosts(conf, Servers.elems[i])
        /\ UNCHANGED <<conf, master, mon, eval, text, Servers, Proxies, alerts, num, conn>>

CallIsInPreferedBackupHosts ==
    \E i \in DOMAIN Servers.elems :
        /\ op' = [name |-> "IsInPreferedBackupHosts", arg |-> i]
        /\ ret' = IsInPreferedBackupHosts(conf, Servers.elems[i])
        /\ UNCHANGED <<conf, master, mon, eval, text, Servers, Proxies, alerts, num, conn>>

CallIsInIgnoredReadonly ==
    \E i \in DOMAIN Servers.elems :
        /\ op' = [name |-> "IsInIgnoredReadonly", arg |-> i]
        /\ ret' = IsInIgnoredReadonly(conf, Servers.elems[i])
        /\ UNCHANGED <<conf, master, mon, eval, text, Servers, Proxies, alerts, num, conn>>

CallIsInPreferedHosts ==
    \E i \in DOMAIN Servers.elems :
        /\ op' = [name |-> "IsInPreferedHosts", arg |-> i]
        /\ ret' = IsInPreferedHosts(conf, Servers.elems[i])
        /\ UNCHANGED <<conf, master, mon, eval, text, Servers, Proxies, alerts, num, conn>>

\* --------------------------------------------- specification: host lists
ListChars == {"a", "b", ","}

NameChars == {"a", "b"}

HostLists == SeqsUpTo(ListChars, MaxListLen)

HostNames == SeqsUpTo(NameChars, MaxNameLen)

\* One of the four lists is configured, the three others are left empty.
HostConfs ==
    {[DefaultConf EXCEPT !.IgnoreSrv = l] : l \in HostLists}
    \cup {[DefaultConf EXCEPT !.BackupServers = l] : l \in HostLists}
    \cup {[DefaultConf EXCEPT !.IgnoreSrvRO = l] : l \in HostLists}
    \cup {[DefaultConf EXCEPT !.PrefMaster = l] : l \in HostLists}

\* Here the text of a node's URL matters: it is spelled out, like its name.
HostServers ==
    {[DefaultServer EXCEPT !.URL = u, !.Name = n] : u \in HostNames, n \in HostNames}

InitHosts ==
    /\ conf \in HostConfs
    /\ Servers \in {MakeSlice(<<server>>) : server \in HostServers}
    /\ Proxies = NilSlice
    /\ alerts = {}
    /\ op = NoOp
    /\ ret = FALSE
    /\ num = 0
    /\ conn = NoConn
    /\ master = NoMaster
    /\ mon = NoMon
    /\ eval = NoEval
    /\ text = ""

NextHosts ==
    \/ CallIsInIgnoredHosts
    \/ CallIsInPreferedBackupHosts
    \/ CallIsInIgnoredReadonly
    \/ CallIsInPreferedHosts

SpecHosts == InitHosts /\ [][NextHosts]_vars

\* -------------------------------------------------------------- claim C11
\* The comma-separated entries of list: its maximal comma-free stretches,
\* each bordered by a comma or by an end of the list.
Entries(list) ==
    {e \in SeqsUpTo(ListChars, Len(list)) :
        \E i \in 1..(Len(list) + 1) :
            /\ i + Len(e) - 1 <= Len(list)
            /\ e = SubSeq(list, i, i + Len(e) - 1)
            /\ \A k \in DOMAIN e : e[k] # ","
            /\ i = 1 \/ list[i - 1] = ","
            /\ i + Len(e) - 1 = Len(list) \/ list[i + Len(e)] = ","}

ListOf(name) ==
    CASE name = "IsInIgnoredHosts" -> conf.IgnoreSrv
      [] name = "IsInPreferedBackupHosts" -> conf.BackupServers
      [] name = "IsInIgnoredReadonly" -> conf.IgnoreSrvRO
      [] name = "IsInPreferedHosts" -> conf.PrefMaster

HostPredicates ==
    {"IsInIgnoredHosts", "IsInPreferedBackupHosts", "IsInIgnoredReadonly",
     "IsInPreferedHosts"}

\* C11: each of IsInIgnoredHosts, IsInPreferedBackupHosts, IsInIgnoredReadonly
\* and IsInPreferedHosts returns true if and only if the node's URL or name
\* equals one of the comma-separated entries of its configured list, and
\* returns false for every node when that list is empty, a node whose URL or
\* name is the empty string included.
C11_Membership ==
    op.name \in HostPredicates =>
        LET list == ListOf(op.name)
            server == Servers.elems[op.arg]
        IN ret <=> (/\ list # <<>>
                    /\ \E e \in Entries(list) : server.URL = e \/ server.Name = e)

\* ------------------------------------- HasAllDbUp beside the status refresh
\* The monitoring loop starts its next tick.
TickStart ==
    /\ mon.tick < MaxTick
    /\ mon' = [mon EXCEPT !.tick = @ + 1]
    /\ UNCHANGED <<conf, Servers, Proxies, alerts, op, ret, num, conn, master, eval, text>>

\* The refresh of node i in the current tick writes the node's state in
\* place; mon.stamp[i] remembers the tick the state now in the node is from.
RefreshState ==
    \E i \in DOMAIN Servers.elems, s \in States :
        /\ mon.stamp[i] < mon.tick
        /\ Servers' = [Servers EXCEPT !.elems[i].State = s]
        /\ mon' = [mon EXCEPT !.stamp[i] = mon.tick]
        /\ UNCHANGED <<conf, Proxies, alerts, op, ret, num, conn, master, eval, text>>

\* HasAllDbUp is entered: the nil test, then the loop starts at the first node.
HasAllDbUpEnter ==
    /\ eval.i = 0
    /\ op' = [name |-> "HasAllDbUp", arg |-> 0]
    /\ IF Servers.nil
       THEN /\ ret' = FALSE
            /\ eval' = [i |-> 0, seen |-> {}]
       ELSE /\ ret' = ret
            /\ eval' = [i |-> 1, seen |-> {}]
    /\ UNCHANGED <<conf, Servers, Proxies, alerts, num, conn, master, mon, text>>

\* One iteration of the loop of HasAllDbUp: it reads the state of node eval.i
\* as it is in the node now, with no lock and no copy of the node set, and
\* returns false on the first node that is down, true after the last node.
HasAllDbUpStep ==
    /\ eval.i > 0
    /\ IF eval.i > Len(Servers.elems)
       THEN /\ ret' = TRUE
            /\ eval' = [eval EXCEPT !.i = 0]
       ELSE LET s == Servers.elems[eval.i]
                seen == eval.seen \cup {mon.stamp[eval.i]}
            IN IF s.State = stateFailed \/ s.State = stateSuspect
               THEN /\ ret' = FALSE
                    /\ eval' = [i |-> 0, seen |-> seen]
               ELSE /\ ret' = ret
                    /\ eval' = [i |-> eval.i + 1, seen |-> seen]
    /\ UNCHANGED <<conf, Servers, Proxies, alerts, op, num, conn, master, mon, text>>

\* ------------------------------------- specification: concurrent refresh
TickServers == {[DefaultServer EXCEPT !.State = s] : s \in States}

InitTick ==
    /\ conf = DefaultConf
    /\ Servers \in SlicesUpTo(TickServers, MaxServers)
    /\ Proxies = NilSlice
    /\ alerts = {}
    /\ op = NoOp
    /\ ret = FALSE
    /\ num = 0
    /\ conn = NoConn
    /\ master = NoMaster
    /\ mon = [tick |-> 0, stamp |-> [i \in DOMAIN Servers.elems |-> 0]]
    /\ eval = NoEval
    /\ text = ""

NextTick ==
    \/ TickStart
    \/ RefreshState
    \/ HasAllDbUpEnter
    \/ HasAllDbUpStep

SpecTick == InitTick /\ [][NextTick]_vars

\* -------------------------------------------------------------- claim C12
\* C12: while the per-node status refresh runs beside the evaluation, one
\* evaluation of HasAllDbUp reads every node's state from the same monitoring
\* tick: when it returns, the states it read are all from one tick.
C12_OneTick ==
    (op.name = "HasAllDbUp" /\ eval.i = 0) => Cardinality(eval.seen) <= 1

\* --------------------------------------------------------- IsMasterFailed
\* cluster.GetMaster: the real master, or the virtual master when there is
\* no real one; a position in Servers, 0 for nil.
GetMaster(m) == IF m.master = 0 THEN m.vmaster ELSE m.master

\* Faulty variant: a suspect master counts as failed, as in HasAllDbUp.
IsMasterFailed_Suspect(m, servers) ==
    LET mymaster == GetMaster(m)
    IN IF mymaster = 0 THEN TRUE
       ELSE IF servers.elems[mymaster].State = stateFailed
               \/ servers.elems[mymaster].State = stateSuspect
            THEN TRUE
            ELSE FALSE

IsMasterFailed(m, servers) ==
    LET mymaster == GetMaster(m)
    IN IF mymaster = 0 THEN TRUE
       ELSE IF servers.elems[mymaster].State = stateFailed THEN TRUE
       ELSE FALSE

CallIsMasterFailed ==
    /\ op' = [name |-> "IsMasterFailed", arg |-> 0]
    /\ ret' = IsMasterFailed(master, Servers)
    /\ UNCHANGED <<conf, master, mon, eval, text, Servers, Proxies, alerts, num, conn>>

\* ------------------------------------------------- specification: master
MasterServers == {[DefaultServer EXCEPT !.State = s] : s \in States}

InitMaster ==
    /\ conf = DefaultConf
    /\ Servers \in SlicesUpTo(MasterServers, MaxServers)
    /\ Proxies = NilSlice
    /\ alerts = {}
    /\ op = NoOp
    /\ ret = FALSE
    /\ num = 0
    /\ conn = NoConn
    /\ master \in [master : 0..Len(Servers.elems), vmaster : 0..Len(Servers.elems)]
    /\ mon = NoMon
    /\ eval = NoEval
    /\ text = ""

NextMaster ==
    \/ CallIsMasterFailed
    \/ SetServerState

SpecMaster == InitMaster /\ [][NextMaster]_vars

\* -------------------------------------------------------------- claim C13
\* C13: IsMasterFailed returns true if and only if the master resolved by
\* GetMaster is absent or its state is Failed; a master in any other state,
\* Suspect included, yields false.
C13_MasterFailed ==
    op.name = "IsMasterFailed" =>
        (ret <=> \/ GetMaster(master) = 0
                 \/ Servers.elems[GetMaster(master)].State = stateFailed)

\* IsMasterFailed returned false for a virtual master that is Suspect.
C13_Witness ==
    /\ op.name = "IsMasterFailed"
    /\ master.master = 0 /\ master.vmaster # 0
    /\ Servers.elems[master.vmaster].State = stateSuspect
    /\ ret = FALSE

\* ------------------------------------- proxies restart and capture mode
\* Faulty variant: every proxy must carry the cookie, so an empty set says
\* true.
HasRequestProxiesRestart_All(proxies) ==
    \A i \in DOMAIN proxies.elems : HasRestartCookie(proxies.elems[i])

\* No nil test: ranging over a nil slice iterates zero times.
HasRequestProxiesRestart(proxies) ==
    \E i \in DOMAIN proxies.elems : HasRestartCookie(proxies.elems[i])

\* Faulty variant: the guard gives up on an empty node set, so the loop runs
\* on a non-empty one.
IsInCaptureMode_Scan(c, servers) ==
    IF ~c.MonitorCapture \/ c.IsNotMonitoring \/ Len(servers.elems) = 0
    THEN FALSE
    ELSE \E i \in DOMAIN servers.elems : servers.elems[i].InCaptureMode

IsInCaptureMode(c, servers) ==
    IF ~c.MonitorCapture \/ c.IsNotMonitoring \/ Len(servers.elems) > 0
    THEN FALSE
    ELSE \E i \in DOMAIN servers.elems : servers.elems[i].InCaptureMode

CallHasRequestProxiesRestart ==
    /\ op' = [name |-> "HasRequestProxiesRestart", arg |-> 0]
    /\ ret' = HasRequestProxiesRestart(Proxies)
    /\ UNCHANGED <<conf, master, mon, eval, text, Servers, Proxies, alerts, num, conn>>

CallIsInCaptureMode ==
    /\ op' = [name |-> "IsInCaptureMode", arg |-> 0]
    /\ ret' = IsInCaptureMode(conf, Servers)
    /\ UNCHANGED <<conf, master, mon, eval, text, Servers, Proxies, alerts, num, conn>>

\* ------------------------------------------------ specification: cluster
ClusterConfs ==
    {[DefaultConf EXCEPT !.MonitorCapture = m, !.IsNotMonitoring = n] :
        m \in BOOLEAN, n \in BOOLEAN}

ClusterServers ==
    {[DefaultServer EXCEPT !.RestartCookie = r, !.InCaptureMode = k] :
        r \in BOOLEAN, k \in BOOLEAN}

ClusterProxies == {[DefaultProxy EXCEPT !.RestartCookie = r] : r \in BOOLEAN}

InitCluster ==
    /\ conf \in ClusterConfs
    /\ Servers \in SlicesUpTo(ClusterServers, MaxServers)
    /\ Proxies \in SlicesUpTo(ClusterProxies, MaxProxies)
    /\ alerts = {}
    /\ op = NoOp
    /\ ret = FALSE
    /\ num = 0
    /\ conn = NoConn
    /\ master = NoMaster
    /\ mon = NoMon
    /\ eval = NoEval
    /\ text = ""

NextCluster ==
    \/ CallHasRequestDBRestart
    \/ CallHasRequestProxiesRestart
    \/ CallIsInCaptureMode

SpecCluster == InitCluster /\ [][NextCluster]_vars

\* -------------------------------------------------------------- claim C14
\* C14: HasRequestDBRestart is true exactly when at least one node carries a
\* restart cookie and HasRequestProxiesRestart exactly when at least one
\* proxy does; both are false for an empty or undefined set.
C14_RestartRequested ==
    /\ op.name = "HasRequestDBRestart" =>
          /\ ret <=> \E i \in DOMAIN Servers.elems : Servers.elems[i].RestartCookie
          /\ (Servers.nil \/ Servers.elems = <<>>) => ~ret
    /\ op.name = "HasRequestProxiesRestart" =>
          /\ ret <=> \E i \in DOMAIN Proxies.elems : Proxies.elems[i].RestartCookie
          /\ (Proxies.nil \/ Proxies.elems = <<>>) => ~ret

\* HasRequestProxiesRestart returned false on an empty, defined proxy set
\* while a node carries a restart cookie.
C14_Witness ==
    /\ op.name = "HasRequestProxiesRestart"
    /\ ~Proxies.nil /\ Proxies.elems = <<>>
    /\ \E i \in DOMAIN Servers.elems : Servers.elems[i].RestartCookie
    /\ ret = FALSE

\* -------------------------------------------------------------- claim C18
\* C18: IsInCaptureMode returns false in every cluster state, whatever the
\* capture setting, the monitoring flag and the nodes' capture flags are.
C18_NeverCapture ==
    op.name = "IsInCaptureMode" => ret = FALSE

\* IsInCaptureMode returned false with capture configured, monitoring on and
\* a node in capture mode.
C18_Witness ==
    /\ op.name = "IsInCaptureMode"
    /\ conf.MonitorCapture /\ ~conf.IsNotMonitoring
    /\ \E i \in DOMAIN Servers.elems : Servers.elems[i].InCaptureMode
    /\ ret = FALSE

\* -------------------------------------------------------------- claim C15
\* The nodes other than a, told apart by URL (a node's URL is its position
\* in the cluster), whose active channel resolves and reports a's upstream.
OtherReplicasOf(a) ==
    {k \in DOMAIN Servers.elems :
        /\ Servers.elems[k].URL # Servers.elems[a].URL
        /\ ReportsUpstream(k, UpstreamOf(a))}

\* C15: GetSibling(n) returns none when n's own channel lookup fails;
\* otherwise it returns the first node in cluster order, other than n, whose
\* channel resolves and reports n's upstream identifier. It never returns n,
\* and returns none only when no other node, told apart by URL, reports that
\* upstream, also when two distinct nodes carry the same server id.
C15_Sibling ==
    op.name = "GetSibling" =>
        LET a == op.arg
            server == Servers.elems[a]
        IN IF GetSlaveStatus(server, server.ReplicationSourceName).err
           THEN num = 0
           ELSE /\ num # a
                /\ (num = 0 <=> OtherReplicasOf(a) = {})
                /\ num # 0 =>
                      /\ num \in OtherReplicasOf(a)
                      /\ \A k \in OtherReplicasOf(a) : num <= k

\* ------------------------------------------------ GetReplicationUsingGtid
\* ServerMonitor.IsMariaDB: the node's database family.
IsMariaDB(server) == server.DBVersion = "MariaDB"

GetReplicationUsingGtid(server) ==
    IF IsMariaDB(server)
    THEN LET r == GetSlaveStatus(server, server.ReplicationSourceName)
         IN IF r.err THEN "No" ELSE r.ss.UsingGtid.String
    ELSE IF server.HaveMySQLGTID THEN "Yes" ELSE "No"

CallGetReplicationUsingGtid ==
    \E i \in DOMAIN Servers.elems :
        /\ op' = [name |-> "GetReplicationUsingGtid", arg |-> i]
        /\ text' = GetReplicationUsingGtid(Servers.elems[i])
        /\ UNCHANGED <<conf, master, mon, eval, Servers, Proxies, alerts, ret, num, conn>>

\* --------------------------------------------------- specification: gtid
\* What a channel reports in its Using_Gtid column: no value, or the text
\* the server sent.
GtidFlags ==
    {[String |-> "", Valid |-> FALSE]}
    \cup {[String |-> v, Valid |-> TRUE] : v \in {"No", "Yes", "Slave_Pos"}}

GtidRecords ==
    {[DefaultSlaveStatus EXCEPT !.ConnectionName = n, !.MasterServerID = 7,
                                !.UsingGtid = g] :
        n \in ChannelNames, g \in GtidFlags}

GtidReplications ==
    {NilSlice} \cup {MakeSlice(s) : s \in SeqsUpTo(GtidRecords, MaxChannels)}

GtidServers ==
    {[DefaultServer EXCEPT !.ReplicationSourceName = n, !.Replications = rs,
                           !.DBVersion = v, !.HaveMySQLGTID = h] :
        n \in ChannelNames, rs \in GtidReplications,
        v \in {"MariaDB", "MySQL"}, h \in BOOLEAN}

InitGtid ==
    /\ conf = DefaultConf
    /\ Servers \in {MakeSlice(WithURLs(<<server>>)) : server \in GtidServers}
    /\ Proxies = NilSlice
    /\ alerts = {}
    /\ op = NoOp
    /\ ret = FALSE
    /\ num = 0
    /\ conn = NoConn
    /\ master = NoMaster
    /\ mon = NoMon
    /\ eval = NoEval
    /\ text = ""

NextGtid == CallGetReplicationUsingGtid

SpecGtid == InitGtid /\ [][NextGtid]_vars

\* -------------------------------------------------------------- claim C17
\* C17: GetReplicationUsingGtid returns only "Yes" or "No": for a MariaDB
\* node the GTID flag of its active channel, "No" when the channel lookup
\* fails; for any other node "Yes" exactly when HaveMySQLGTID is set.
C17_YesNo ==
    op.name = "GetReplicationUsingGtid" =>
        LET server == Servers.elems[op.arg]
            r == GetSlaveStatus(server, server.ReplicationSourceName)
        IN /\ text \in {"Yes", "No"}
           /\ IsMariaDB(server) =>
                 IF r.err THEN text = "No" ELSE text = r.ss.UsingGtid.String
           /\ ~IsMariaDB(server) => (text = "Yes" <=> server.HaveMySQLGTID)

\* ------------------------------------------------ reprovisioning requests
\* No nil test in either: ranging over a nil slice iterates zero times.
HasRequestDBReprov(servers) ==
    \E i \in DOMAIN servers.elems : HasReprovCookie(servers.elems[i])

HasRequestProxiesReprov(proxies) ==
    \E i \in DOMAIN proxies.elems : HasReprovCookie(proxies.elems[i])

CallHasRequestDBReprov ==
    /\ op' = [name |-> "HasRequestDBReprov", arg |-> 0]
    /\ ret' = HasRequestDBReprov(Servers)
    /\ UNCHANGED <<conf, master, mon, eval, text, Servers, Proxies, alerts, num, conn>>

CallHasRequestProxiesReprov ==
    /\ op' = [name |-> "HasRequestProxiesReprov", arg |-> 0]
    /\ ret' = HasRequestProxiesReprov(Proxies)
    /\ UNCHANGED <<conf, master, mon, eval, text, Servers, Proxies, alerts, num, conn>>

\* -------------------------------------------- specification: calls only
\* Every member carries the restart and reprovisioning cookies. A running
\* member starts without the provision cookie, which IsProvisioned creates;
\* a member that is not running has it or not.
FrameServers ==
    {[DefaultServer EXCEPT !.State = s, !.ProvisionCookie = c,
                           !.RestartCookie = TRUE, !.ReprovCookie = TRUE,
                           !.Replications =
                               MakeSlice(<<[DefaultSlaveStatus EXCEPT !.MasterServerID = 7]>>)] :
        s \in {stateRunning, stateFailed}, c \in BOOLEAN}

FrameProxies ==
    {[DefaultProxy EXCEPT !.State = s, !.ProvisionCookie = c,
                          !.RestartCookie = TRUE, !.ReprovCookie = TRUE] :
        s \in {stateRunning, stateFailed}, c \in BOOLEAN}

NotYetProvisioned(ms) ==
    \A i \in DOMAIN ms : IsRunning(ms[i]) => ~HasProvisionCookie(ms[i])

InitFrame ==
    /\ conf \in ProvConfs
    /\ Servers \in SlicesUpTo(FrameServers, MaxServers)
    /\ NotYetProvisioned(Servers.elems)
    /\ Proxies \in SlicesUpTo(FrameProxies, MaxProxies)
    /\ NotYetProvisioned(Proxies.elems)
    /\ alerts = {}
    /\ op = NoOp
    /\ ret = FALSE
    /\ num = 0
    /\ conn = NoConn
    /\ master = [master |-> Len(Servers.elems), vmaster |-> 0]
    /\ mon = NoMon
    /\ eval = NoEval
    /\ text = ""

NextFrame ==
    \/ CallHasAllDbUp
    \/ CallHasRequestDBRestart
    \/ CallHasRequestDBRollingRestart
    \/ CallHasRequestDBRollingReprov
    \/ CallHasRequestDBReprov
    \/ CallHasRequestProxiesRestart
    \/ CallHasRequestProxiesReprov
    \/ CallIsInCaptureMode
    \/ CallIsMasterFailed
    \/ CallIsProvisioned
    \/ CallGetSibling
    \/ CallGetReplicationDelay
    \/ CallGetReplicationUsingGtid

SpecFrame == InitFrame /\ [][NextFrame]_vars

\* -------------------------------------------------------------- claim C16
\* The member lists ms and ms2 differ at most in provision cookies that were
\* unset in ms and are set in ms2.
OnlyCookiesSet(ms, ms2) ==
    /\ Len(ms2) = Len(ms)
    /\ \A i \in DOMAIN ms :
          /\ ms2[i] = [ms[i] EXCEPT !.ProvisionCookie = ms2[i].ProvisionCookie]
          /\ ms[i].ProvisionCookie => ms2[i].ProvisionCookie

\* C16: over any sequence of calls to the aggregate predicates and topology
\* accessors, the only change to the cluster is a provision cookie going
\* from unset to set, inside IsProvisioned: no call clears a cookie, touches
\* a restart or reprovisioning cookie or a health state, and an
\* IsProvisioned call that follows another returns the same result and
\* changes nothing.
C16_Frame ==
    [][/\ conf' = conf
       /\ Servers'.nil = Servers.nil
       /\ Proxies'.nil = Proxies.nil
       /\ OnlyCookiesSet(Servers.elems, Servers'.elems)
       /\ OnlyCookiesSet(Proxies.elems, Proxies'.elems)
       /\ op'.name # "IsProvisioned" => (Servers' = Servers /\ Proxies' = Proxies)
       /\ (op.name = "IsProvisioned" /\ op'.name = "IsProvisioned") =>
             (ret' = ret /\ Servers' = Servers /\ Proxies' = Proxies)]_vars

\* IsProvisioned created the cookie of the running first node, stopped at a
\* failed node without one and returned false; the restart and
\* reprovisioning cookies are all in place.
C16_Witness ==
    /\ op.name = "IsProvisioned"
    /\ ret = FALSE
    /\ Len(Servers.elems) >= 2
    /\ IsRunning(Servers.elems[1]) /\ HasProvisionCookie(Servers.elems[1])
    /\ ~IsRunning(Servers.elems[2]) /\ ~HasProvisionCookie(Servers.elems[2])
    /\ \A i \in DOMAIN Servers.elems :
          HasRestartCookie(Servers.elems[i]) /\ HasReprovCookie(Servers.elems[i])

====
